---- MODULE Spec2Model ----
(***************************************************************************)
(* The note editor of src/uiManager.js (class UIManager) together with the *)
(* NoteManager it persists through (src/noteManager.js) and the            *)
(* HistoryManager it keeps its undo/redo history in (./history.js, which   *)
(* is imported by uiManager.js but is not among the sources: it is         *)
(* modelled from section 4.2 of the specification).                        *)
(*                                                                         *)
(* JavaScript runs the handlers one at a time, so every handler, timer     *)
(* callback and frame callback is one atomic action.  Time is counted in   *)
(* quanta of Quantum milliseconds for the toggle debounce timer and the    *)
(* pass-2 restoration timer, whose relative order decides what a second    *)
(* click does.  The 500 ms of the commit timer are not counted: the user   *)
(* inputs are free in time, so the commit callback can fall anywhere       *)
(* after the edit that armed it.  Date.now() is the wall clock `now`; a      *)
(* handler that reads it finds it unchanged or advanced.                    *)
(***************************************************************************)
EXTENDS Integers, Sequences, FiniteSets, TLC

\* ------------------------------------------------------------------ bounds
\* The number of user inputs (clicks, key strokes) of one run.
MaxOps == 4
\* The number of times the wall clock is seen to advance in one run.
MaxClock == 1

\* ------------------------------------------------------- program constants
TOGGLE_DEBOUNCE == 50
SCROLL_RESTORE_DELAY == 100
INITIAL_TOGGLES == 3

RECURSIVE Gcd(_, _)
Gcd(a, b) == IF b = 0 THEN a ELSE Gcd(b, a % b)
\* One tick of the timer clock, in milliseconds.
Quantum == Gcd(TOGGLE_DEBOUNCE, SCROLL_RESTORE_DELAY)
DebounceTicks == TOGGLE_DEBOUNCE \div Quantum
RestoreTicks == SCROLL_RESTORE_DELAY \div Quantum

\* --------------------------------------------------------------- inputs
\* What the user types into the note title.
TitleValues == {"", "a"}
\* What the user types into a toggle's title.
ToggleText == {"t"}
\* What a toggle's textarea holds after a keystroke, and after the next one.
ContentText == {"t", "tu"}
\* Date.now() when the stored note was created, and at start-up.
T1 == 10
T0 == 20

\* JavaScript's null.
Null == [null |-> TRUE]

VARIABLES
  notes,                \* noteManager.notes, as persisted by saveNotes()
  currentNote,          \* this.currentNote
  history,              \* this.history: [undoStack, redoStack]
  buttons,              \* undoButton.disabled, redoButton.disabled
  editorHidden,         \* the editor carries class "hidden" (the list view shows)
  dom,                  \* the rendered toggle sections: [id, isOpen], in order
  autoSaveTimeout,      \* this.autoSaveTimeout: "null", "live" (a pending timer) or "stale"
  commitTimers,         \* the pending commit timers, oldest first
  toggleDebounce,       \* this.toggleDebounce: "null", "live" or "stale"
  toggleTimers,         \* the pending toggle debounce timers, oldest first
  isRestoring,          \* this.isRestoring
  frames,               \* the pending requestAnimationFrame callbacks (pass 1)
  scrollRestoreTimeout, \* this.scrollRestoreTimeout: "null", "live" or "stale"
  restoreTimers,        \* the pending pass-2 timers, oldest first
  now,                  \* Date.now()
  ops,                  \* user inputs so far
  ev,                   \* what the last handler or callback did (observation)
  undoMark,             \* observation: the note before the handleUndo just made
  burst,                \* observation: the current burst of field edits
  tb,                   \* observation: the current burst of toggle requests
  \* the view: what the scroll restoration reads and writes
  regions,              \* the rendered textareas: [id, content, scrollTop, scrollHeight]
  editorScroll,         \* scrollTop of the .editor-content container
  reconciliation,       \* what _handleToggleSection captured for its two passes
  viewFrames,           \* every pending requestAnimationFrame callback, oldest first
  viewTimers,           \* the pending timers of restoreEditorState and of
                        \* loadEditorStateFromStorage, oldest first
  savedToggleStates,    \* this.savedToggleStates
  lastKnownScrollPosition, \* this.lastKnownScrollPosition
  editorStates,         \* localStorage['editor-states']: the saved view states
  savedFrom,            \* observation: the textareas this.savedToggleStates was taken from
  vev,                  \* what the last step wrote to the view (observation)
  \* the objects: the notes as JavaScript objects with an identity
  heap,                 \* every note object made so far; a reference is its index
  currentRef,           \* this.currentNote as a reference; 0 is null
  stackRefs,            \* this.history as stacks of references
  closureRefs,          \* previousState in the closure of each pending commit timer
  \* the note manager
  storage,              \* localStorage['app1_notes'], as saveNotes() wrote it
  call,                 \* the last call of a NoteManager method and what it returned
  steps                 \* observation: what the toggle reconciliation has done so far

\* The variables of the editor proper and those of its view.
editorVars == <<notes, currentNote, history, buttons, editorHidden, dom,
                autoSaveTimeout, commitTimers, toggleDebounce, toggleTimers,
                isRestoring, frames, scrollRestoreTimeout, restoreTimers,
                now, ops, ev, undoMark, burst, tb>>
viewVars == <<regions, editorScroll, reconciliation, viewFrames, viewTimers,
              savedToggleStates, lastKnownScrollPosition, editorStates, savedFrom, vev>>

heapVars == <<heap, currentRef, stackRefs, closureRefs>>

managerVars == <<storage, call>>

vars == <<editorVars, viewVars, heapVars, managerVars, steps>>

\* ------------------------------------------------------------ NoteManager
\* createNote() at Date.now() = t: three toggles, the first one open.
CreateNote(t) ==
  [id |-> t,
   title |-> "",
   toggles |-> [i \in 1..INITIAL_TOGGLES |->
                  [id |-> t + (i - 1),
                   title |-> "Section " \o ToString(i),
                   content |-> "",
                   isOpen |-> (i = 1)]],
   updated |-> t]

\* JSON.parse(JSON.stringify(note)): a copy, field by field.
Clone(note) ==
  [id |-> note.id,
   title |-> note.title,
   toggles |-> [i \in DOMAIN note.toggles |->
                  [id |-> note.toggles[i].id,
                   title |-> note.toggles[i].title,
                   content |-> note.toggles[i].content,
                   isOpen |-> note.toggles[i].isOpen]],
   updated |-> note.updated]

\* The two states compared as objects (a !== b): a copy is never its original.
JsonDiffersByReference(a, b) == TRUE

\* JSON.stringify(a) !== JSON.stringify(b); null serialises as "null".
JsonDiffers(a, b) ==
  IF a = Null \/ b = Null THEN ~(a = Null /\ b = Null) ELSE a # b

\* Array.prototype.findIndex: the first index whose element's id is id, or 0.
FindIndex(seq, id) ==
  IF \E i \in DOMAIN seq : seq[i].id = id
  THEN CHOOSE i \in DOMAIN seq : seq[i].id = id /\ \A j \in 1..(i - 1) : seq[j].id # id
  ELSE 0

\* updateNote(note): stamps the note and, when the store holds its id, stores a copy.
\* The result is the stamped note, the store and whether saveNotes() ran.
UpdateNote(note, store, t) ==
  LET stamped == [note EXCEPT !.updated = t]
      index == FindIndex(store, note.id)
  IN [note |-> stamped,
      notes |-> IF index # 0 THEN [store EXCEPT ![index] = Clone(stamped)] ELSE store,
      saved |-> index # 0]

\* --------------------------------------------------------- HistoryManager
\* push(snapshot): on top of the undo stack; the redo stack is cleared.
HistPush(h, snapshot) ==
  [undoStack |-> Append(h.undoStack, snapshot), redoStack |-> <<>>]

\* undo(currentState): no change on an empty undo stack; else pops the top and
\* pushes currentState onto the redo stack.
HistUndo(h, currentState) ==
  IF h.undoStack = <<>>
  THEN [h |-> h, ret |-> Null]
  ELSE [h |-> [undoStack |-> SubSeq(h.undoStack, 1, Len(h.undoStack) - 1),
               redoStack |-> Append(h.redoStack, currentState)],
        ret |-> h.undoStack[Len(h.undoStack)]]

\* redo(currentState): the mirror image of undo.
HistRedo(h, currentState) ==
  IF h.redoStack = <<>>
  THEN [h |-> h, ret |-> Null]
  ELSE [h |-> [undoStack |-> Append(h.undoStack, currentState),
               redoStack |-> SubSeq(h.redoStack, 1, Len(h.redoStack) - 1)],
        ret |-> h.redoStack[Len(h.redoStack)]]

\* clear(): both stacks empty.
HistClear == [undoStack |-> <<>>, redoStack |-> <<>>]

\* The callback with both buttons following canUndo.
OnChangeCanUndoOnly(h) ==
  [undoDisabled |-> ~(h.undoStack # <<>>), redoDisabled |-> ~(h.undoStack # <<>>)]

\* The callback with the two flags interchanged.
OnChangeSwapped(h) ==
  [undoDisabled |-> ~(h.redoStack # <<>>), redoDisabled |-> ~(h.undoStack # <<>>)]

\* The onChange callback of the constructor: the buttons follow canUndo/canRedo.
OnChange(h) ==
  [undoDisabled |-> ~(h.undoStack # <<>>), redoDisabled |-> ~(h.redoStack # <<>>)]

\* ------------------------------------------------------------ observation
\* What a handler did: the history.push calls, the renderEditor calls, the isOpen
\* flips, whether saveNotes() ran, what history.undo/redo returned, whether it
\* threw, and the sizes of the two stacks when it started.
Ev(op, pushes, renders, flips, saved, ret, threw) ==
  [op |-> op, pushes |-> pushes, renders |-> renders, flips |-> flips,
   saved |-> saved, ret |-> ret, threw |-> threw,
   undoBefore |-> Len(history.undoStack), redoBefore |-> Len(history.redoStack)]

\* The toggles whose isOpen differs between two states of a note.
Flips(old, new) ==
  Cardinality({i \in DOMAIN old.toggles :
                 i \in DOMAIN new.toggles /\ old.toggles[i].isOpen # new.toggles[i].isOpen})

Top(stack) == stack[Len(stack)]

\* A note's content: everything but the time stamp updateNote() refreshes.
Content(note) == [id |-> note.id, title |-> note.title, toggles |-> note.toggles]

NoBurst ==
  [op |-> "none", id |-> 0, start |-> Null, edits |-> 0, pushes |-> 0, closed |-> FALSE]

FieldEdits == {"handleNoteChange", "updateToggleTitle", "updateToggleContent"}

\* The ids of the rendered toggle sections (their headers and title inputs).
DomIds == {dom[i].id : i \in DOMAIN dom}

\* The ids of the sections rendered open: the ones whose textarea shows.
OpenDomIds == {dom[i].id : i \in {j \in DOMAIN dom : dom[j].isOpen}}

\* renderEditor(), lines 683-707: the toggle list is rebuilt from the note.
Rendered(note) ==
  [i \in DOMAIN note.toggles |->
     [id |-> note.toggles[i].id, isOpen |-> note.toggles[i].isOpen]]

\* A clearTimeout that cancels nothing.
KeepTimers(handle, timers) == timers

\* clearTimeout(handle): a live handle names the newest pending timer.
ClearTimeout(handle, timers) ==
  IF handle = "live" THEN SubSeq(timers, 1, Len(timers) - 1) ELSE timers

\* A handle after the oldest of its timers has fired.
AfterFire(handle, timers) ==
  IF handle = "live" /\ Len(timers) = 1 THEN "stale" ELSE handle

\* The editor after construction, with one note in the store.
EditorInit ==
  /\ notes = <<CreateNote(T1)>>
  /\ currentNote = Null
  /\ history = HistClear
  /\ buttons \in [undoDisabled : BOOLEAN, redoDisabled : BOOLEAN]
  /\ editorHidden = TRUE
  /\ dom = <<>>
  /\ autoSaveTimeout = "null"
  /\ commitTimers = <<>>
  /\ toggleDebounce = "null"
  /\ toggleTimers = <<>>
  /\ isRestoring = FALSE
  /\ frames = <<>>
  /\ scrollRestoreTimeout = "null"
  /\ restoreTimers = <<>>
  /\ now = T0
  /\ ops = 0
  /\ ev = Ev("init", 0, 0, 0, FALSE, Null, FALSE)
  /\ undoMark = Null
  /\ burst = NoBurst
  /\ tb = Null

\* The view after construction, lines 12-15: nothing rendered, nothing saved.
ViewInit ==
  /\ regions = <<>>
  /\ editorScroll = 0
  /\ reconciliation = Null
  /\ viewFrames = <<>>
  /\ viewTimers = <<>>
  /\ savedToggleStates = Null
  /\ lastKnownScrollPosition = 0
  /\ savedFrom = <<>>
  /\ vev = [op |-> "init"]

\* No note object has been made yet.
HeapInit ==
  /\ heap = <<>>
  /\ currentRef = 0
  /\ stackRefs = HistClear
  /\ closureRefs = <<>>

\* The notes in localStorage are the ones the manager loaded; no method of
\* the manager has been called and no reconciliation has run.
ManagerInit ==
  /\ storage = notes
  /\ call = [method |-> "none"]
  /\ steps = <<>>

\* A fresh profile: no view state was ever stored.
Init ==
  /\ EditorInit
  /\ ViewInit
  /\ HeapInit
  /\ ManagerInit
  /\ editorStates = {}


\* ------------------------------------------------------------- user inputs
\* The observation variables after a user input other than the ones they follow.
OtherInput ==
  /\ undoMark' = Null
  /\ burst' = NoBurst
  /\ tb' = Null

\* A click on a note card of the list view: openEditor(note), lines 87-94.
openEditor(i) ==
  /\ ops < MaxOps
  /\ editorHidden
  /\ i \in DOMAIN notes
  /\ currentNote' = Clone(notes[i])
  /\ editorHidden' = FALSE
  /\ history' = HistClear
  /\ buttons' = OnChange(HistClear)
  /\ dom' = Rendered(notes[i])
  /\ ops' = ops + 1
  /\ ev' = Ev("openEditor", 0, 1, 0, FALSE, Null, FALSE)
  /\ OtherInput
  /\ UNCHANGED <<notes, autoSaveTimeout, commitTimers, toggleDebounce, toggleTimers,
                 isRestoring, frames, scrollRestoreTimeout, restoreTimers, now>>

\* A click on the back button: closeEditor(), lines 96-103.
closeEditor ==
  /\ ops < MaxOps
  /\ ~editorHidden
  /\ currentNote' = Null
  /\ editorHidden' = TRUE
  /\ history' = HistClear
  /\ buttons' = OnChange(HistClear)
  /\ ops' = ops + 1
  /\ ev' = Ev("closeEditor", 0, 0, 0, FALSE, Null, FALSE)
  /\ OtherInput
  /\ UNCHANGED <<notes, dom, autoSaveTimeout, commitTimers, toggleDebounce, toggleTimers,
                 isRestoring, frames, scrollRestoreTimeout, restoreTimers, now>>

\* The burst of field edits after an edit by handler op of field id that
\* called history.push p times.
BurstAfterEdit(op, id, p) ==
  IF burst.op = op /\ burst.id = id /\ ~burst.closed
  THEN [burst EXCEPT !.edits = IF @ < 2 THEN @ + 1 ELSE @,
                     !.pushes = IF @ + p < 2 THEN @ + p ELSE 2]
  ELSE [op |-> op, id |-> id, start |-> currentNote, edits |-> 1, pushes |-> p,
        closed |-> FALSE]

\* An input event on the note title: handleNoteChange(e), lines 263-282.
handleNoteChange(value) ==
  /\ ops < MaxOps
  /\ ~editorHidden
  /\ ops' = ops + 1
  /\ ev' = Ev("handleNoteChange", 0, 0, 0, FALSE, Null, FALSE)
  /\ undoMark' = Null
  /\ tb' = Null
  /\ IF currentNote = Null
     THEN UNCHANGED <<currentNote, autoSaveTimeout, commitTimers, burst>>
     ELSE /\ currentNote' = [currentNote EXCEPT !.title = value]
          /\ commitTimers' = Append(ClearTimeout(autoSaveTimeout, commitTimers),
                                    [previousState |-> Clone(currentNote)])
          /\ autoSaveTimeout' = "live"
          /\ burst' = BurstAfterEdit("handleNoteChange", 0, 0)
  /\ UNCHANGED <<notes, history, buttons, editorHidden, dom, toggleDebounce, toggleTimers,
                 isRestoring, frames, scrollRestoreTimeout, restoreTimers, now>>

\* handleUndo() storing the note it holds instead of the state undo returned.
UndoStepKeepsCurrent(t) ==
  LET r == HistUndo(history, currentNote)
  IN IF r.ret = Null
     THEN [h |-> history, ret |-> Null, note |-> currentNote, notes |-> notes,
           saved |-> FALSE, renders |-> 0]
     ELSE LET u == UpdateNote(currentNote, notes, t)
          IN [h |-> r.h, ret |-> r.ret, note |-> u.note, notes |-> u.notes,
              saved |-> u.saved, renders |-> 1]

\* Lines 287-290 of handleUndo(): history.undo(this.currentNote) and, when it
\* returns a state, that state becomes the current note and is stored.
UndoStep(t) ==
  LET r == HistUndo(history, currentNote)
  IN IF r.ret = Null
     THEN [h |-> history, ret |-> Null, note |-> currentNote, notes |-> notes,
           saved |-> FALSE, renders |-> 0]
     ELSE LET u == UpdateNote(r.ret, notes, t)
          IN [h |-> r.h, ret |-> r.ret, note |-> u.note, notes |-> u.notes,
              saved |-> u.saved, renders |-> 1]

\* handleRedo() storing the note before it looks at what redo returned.
RedoStepStoresFirst(t) ==
  LET r == HistRedo(history, currentNote)
      u == UpdateNote(IF r.ret = Null THEN currentNote ELSE r.ret, notes, t)
  IN [h |-> r.h, ret |-> r.ret, note |-> u.note, notes |-> u.notes,
      saved |-> u.saved, renders |-> IF r.ret = Null THEN 0 ELSE 1]

\* Lines 298-301 of handleRedo(): the same with history.redo.
RedoStep(t) ==
  LET r == HistRedo(history, currentNote)
  IN IF r.ret = Null
     THEN [h |-> history, ret |-> Null, note |-> currentNote, notes |-> notes,
           saved |-> FALSE, renders |-> 0]
     ELSE LET u == UpdateNote(r.ret, notes, t)
          IN [h |-> r.h, ret |-> r.ret, note |-> u.note, notes |-> u.notes,
              saved |-> u.saved, renders |-> 1]

\* Ctrl+Z or a click on the undo button: handleUndo(), lines 284-293.
\* saveEditorState() reads this.currentNote.toggles first: with no note open
\* that is a TypeError and the handler ends there.
handleUndo(t) ==
  /\ ops < MaxOps
  /\ ops' = ops + 1
  /\ burst' = NoBurst
  /\ tb' = Null
  /\ IF currentNote = Null
     THEN /\ ev' = Ev("handleUndo", 0, 0, 0, FALSE, Null, TRUE)
          /\ undoMark' = Null
          /\ UNCHANGED <<notes, currentNote, history, buttons, dom, now>>
     ELSE LET u == UndoStep(t)
          IN /\ history' = u.h
             /\ buttons' = IF u.h = history THEN buttons ELSE OnChange(u.h)
             /\ currentNote' = u.note
             /\ notes' = u.notes
             /\ dom' = IF u.renders > 0 THEN Rendered(u.note) ELSE dom
             /\ now' = IF u.ret = Null THEN now ELSE t
             /\ ev' = Ev("handleUndo", 0, u.renders, 0, u.saved, u.ret, FALSE)
             /\ undoMark' = IF u.ret = Null THEN Null ELSE currentNote
  /\ UNCHANGED <<editorHidden, autoSaveTimeout, commitTimers, toggleDebounce, toggleTimers,
                 isRestoring, frames, scrollRestoreTimeout, restoreTimers>>

\* Ctrl+Shift+Z or a click on the redo button: handleRedo(), lines 295-304.
handleRedo(t) ==
  /\ ops < MaxOps
  /\ ops' = ops + 1
  /\ burst' = NoBurst
  /\ tb' = Null
  /\ undoMark' = IF ev.op = "handleUndo" THEN undoMark ELSE Null
  /\ IF currentNote = Null
     THEN /\ ev' = Ev("handleRedo", 0, 0, 0, FALSE, Null, TRUE)
          /\ UNCHANGED <<notes, currentNote, history, buttons, dom, now>>
     ELSE LET u == RedoStep(t)
          IN /\ history' = u.h
             /\ buttons' = IF u.h = history THEN buttons ELSE OnChange(u.h)
             /\ currentNote' = u.note
             /\ notes' = u.notes
             /\ dom' = IF u.renders > 0 THEN Rendered(u.note) ELSE dom
             /\ now' = IF u.ret = Null THEN now ELSE t
             /\ ev' = Ev("handleRedo", 0, u.renders, 0, u.saved, u.ret, FALSE)
  /\ UNCHANGED <<editorHidden, autoSaveTimeout, commitTimers, toggleDebounce, toggleTimers,
                 isRestoring, frames, scrollRestoreTimeout, restoreTimers>>

\* A click on the add-toggle button: addNewToggle(), lines 357-375.
addNewToggle(t) ==
  /\ ops < MaxOps
  /\ ~editorHidden
  /\ ops' = ops + 1
  /\ OtherInput
  /\ IF currentNote = Null
     THEN /\ ev' = Ev("addNewToggle", 0, 0, 0, FALSE, Null, FALSE)
          /\ UNCHANGED <<notes, currentNote, history, buttons, dom, now>>
     ELSE LET newToggle == [id |-> t,
                            title |-> "Section " \o ToString(Len(currentNote.toggles) + 1),
                            content |-> "",
                            isOpen |-> TRUE]
              added == [currentNote EXCEPT !.toggles = Append(@, newToggle)]
              h == HistPush(history, Clone(currentNote))
              u == UpdateNote(added, notes, t)
          IN /\ now' = t
             /\ history' = h
             /\ buttons' = OnChange(h)
             /\ currentNote' = u.note
             /\ notes' = u.notes
             /\ dom' = Rendered(u.note)
             /\ ev' = Ev("addNewToggle", 1, 1, 0, u.saved, Null, FALSE)
  /\ UNCHANGED <<editorHidden, autoSaveTimeout, commitTimers, toggleDebounce, toggleTimers,
                 isRestoring, frames, scrollRestoreTimeout, restoreTimers>>

\* updateToggleTitle / updateToggleContent, lines 377-399: the toggle found by
\* id gets the new text, the state before is pushed, the note is stored.
UpdateToggleField(op, field, toggleId, text, t) ==
  /\ ops < MaxOps
  /\ ~editorHidden
  /\ toggleId \in DomIds
  /\ ops' = ops + 1
  /\ undoMark' = Null
  /\ tb' = Null
  /\ IF currentNote = Null
     THEN /\ ev' = Ev(op, 0, 0, 0, FALSE, Null, FALSE)
          /\ UNCHANGED <<notes, currentNote, history, buttons, burst, now>>
     ELSE LET index == FindIndex(currentNote.toggles, toggleId)
              edited == [currentNote EXCEPT !.toggles[index][field] = text]
              h == HistPush(history, Clone(currentNote))
              u == UpdateNote(edited, notes, t)
          IN IF index = 0
             THEN /\ ev' = Ev(op, 0, 0, 0, FALSE, Null, FALSE)
                  /\ burst' = BurstAfterEdit(op, toggleId, 0)
                  /\ UNCHANGED <<notes, currentNote, history, buttons, now>>
             ELSE /\ now' = t
                  /\ history' = h
                  /\ buttons' = OnChange(h)
                  /\ currentNote' = u.note
                  /\ notes' = u.notes
                  /\ ev' = Ev(op, 1, 0, 0, u.saved, Null, FALSE)
                  /\ burst' = BurstAfterEdit(op, toggleId, 1)
  /\ UNCHANGED <<editorHidden, dom, autoSaveTimeout, commitTimers, toggleDebounce,
                 toggleTimers, isRestoring, frames, scrollRestoreTimeout, restoreTimers>>

\* An input event on a toggle's title field, lines 724-727 and 377-387.
updateToggleTitle(toggleId, newTitle, t) ==
  UpdateToggleField("updateToggleTitle", "title", toggleId, newTitle, t)

\* An input event on a toggle's textarea, lines 737-740 and 389-399.
updateToggleContent(toggleId, newContent, t) ==
  UpdateToggleField("updateToggleContent", "content", toggleId, newContent, t)

\* The burst of toggle requests after a request for toggleId.
TbAfterRequest(toggleId) ==
  IF tb # Null /\ ~tb.done /\ toggleTimers # <<>>
  THEN [tb EXCEPT !.ids = @ \cup {tb.last}, !.last = toggleId, !.calls = IF @ < 2 THEN @ + 1 ELSE @]
  ELSE IF ~isRestoring /\ toggleTimers = <<>> /\ frames = <<>> /\ restoreTimers = <<>>
       THEN [last |-> toggleId, ids |-> {}, calls |-> 1, base |-> currentNote,
             flips |-> 0, pushes |-> 0, renders |-> 0, done |-> FALSE]
       ELSE Null

\* The callback holds the id of the first request still pending.
DebounceTimerFirstId(toggleId) ==
  [toggleId |-> IF toggleTimers # <<>> THEN Head(toggleTimers).toggleId ELSE toggleId,
   left |-> DebounceTicks, during |-> isRestoring]

\* The timer toggleSection arms, lines 414-416: its callback holds toggleId.
DebounceTimer(toggleId) ==
  [toggleId |-> toggleId, left |-> DebounceTicks, during |-> isRestoring]

\* A click on a toggle header: toggleSection(toggleId), lines 401-417.
\* The timer remembers whether it was armed during a reconciliation.
toggleSection(toggleId) ==
  /\ ops < MaxOps
  /\ ~editorHidden
  /\ toggleId \in DomIds
  /\ ops' = ops + 1
  /\ ev' = Ev("toggleSection", 0, 0, 0, FALSE, Null, FALSE)
  /\ undoMark' = Null
  /\ burst' = NoBurst
  /\ IF currentNote = Null
     THEN /\ tb' = Null
          /\ UNCHANGED <<toggleDebounce, toggleTimers, scrollRestoreTimeout, restoreTimers>>
     ELSE /\ toggleTimers' = Append(ClearTimeout(toggleDebounce, toggleTimers),
                                    DebounceTimer(toggleId))
          /\ toggleDebounce' = "live"
          /\ restoreTimers' = ClearTimeout(scrollRestoreTimeout, restoreTimers)
          /\ scrollRestoreTimeout' = "null"
          /\ tb' = TbAfterRequest(toggleId)
  /\ UNCHANGED <<notes, currentNote, history, buttons, editorHidden, dom, autoSaveTimeout,
                 commitTimers, isRestoring, frames, now>>


\* ------------------------------------------------- timer and frame callbacks
\* The burst of toggle requests after _handleToggleSection made f flips,
\* p pushes and r renders; it is over when no debounce timer is left.
TbAfterFire(f, p, r, left) ==
  IF tb = Null \/ tb.done
  THEN tb
  ELSE [tb EXCEPT !.flips = @ + f, !.pushes = @ + p, !.renders = @ + r,
                  !.done = (left = <<>>)]

\* The guard without the reentrancy flag.
ReconcileGuardNoteOnly == currentNote = Null

\* Line 420: the reentrancy guard of _handleToggleSection.
ReconcileGuard == isRestoring \/ currentNote = Null

\* The toggle found by id is opened, whatever it was.
Opened(note, index) == [note EXCEPT !.toggles[index].isOpen = TRUE]

\* Lines 444-452: the toggle found by id has its isOpen negated.
Flipped(note, index) == [note EXCEPT !.toggles[index].isOpen = ~@]

\* _handleToggleSection(toggleId), lines 419-524, up to the frame request: the
\* guard, the lookup (a missing toggle throws and the catch releases the
\* guard), the flip, the push, the store, the render and the pass-1 request.
_handleToggleSection(toggleId, during, left, t) ==
  IF ReconcileGuard
  THEN /\ ev' = [Ev("_handleToggleSection", 0, 0, 0, FALSE, Null, FALSE)
                   EXCEPT !.ret = [dropped |-> TRUE, during |-> during]]
       /\ tb' = TbAfterFire(0, 0, 0, left)
       /\ UNCHANGED <<notes, currentNote, history, buttons, dom, isRestoring, frames, now>>
  ELSE LET index == FindIndex(currentNote.toggles, toggleId)
           flipped == Flipped(currentNote, index)
           h == HistPush(history, Clone(currentNote))
           u == UpdateNote(flipped, notes, t)
       IN IF index = 0
          THEN /\ ev' = [Ev("_handleToggleSection", 0, 0, 0, FALSE, Null, TRUE)
                           EXCEPT !.ret = [dropped |-> FALSE, during |-> during]]
               /\ tb' = TbAfterFire(0, 0, 0, left)
               /\ isRestoring' = FALSE
               /\ UNCHANGED <<notes, currentNote, history, buttons, dom, frames, now>>
          ELSE /\ isRestoring' = TRUE
               /\ now' = t
               /\ history' = h
               /\ buttons' = OnChange(h)
               /\ currentNote' = u.note
               /\ notes' = u.notes
               /\ dom' = Rendered(u.note)
               /\ frames' = Append(frames, [toggleId |-> toggleId])
               /\ ev' = [Ev("_handleToggleSection", 1, 1, Flips(currentNote, flipped),
                              u.saved, Null, FALSE)
                           EXCEPT !.ret = [dropped |-> FALSE, during |-> during]]
               /\ tb' = TbAfterFire(Flips(currentNote, flipped), 1, 1, left)

\* The oldest toggle debounce timer fires, lines 414-416.
ToggleDebounceFires(t) ==
  /\ toggleTimers # <<>>
  /\ Head(toggleTimers).left = 0
  /\ toggleTimers' = Tail(toggleTimers)
  /\ toggleDebounce' = AfterFire(toggleDebounce, toggleTimers)
  /\ _handleToggleSection(Head(toggleTimers).toggleId, Head(toggleTimers).during,
                          Tail(toggleTimers), t)
  /\ UNCHANGED <<editorHidden, autoSaveTimeout, commitTimers, scrollRestoreTimeout,
                 restoreTimers, ops, undoMark, burst>>

\* The frame callback of pass 1, lines 458-518: it arms the pass-2 timer.
Pass1Frame ==
  /\ frames # <<>>
  /\ frames' = Tail(frames)
  /\ restoreTimers' = Append(restoreTimers,
                             [toggleId |-> Head(frames).toggleId, left |-> RestoreTicks])
  /\ scrollRestoreTimeout' = "live"
  /\ ev' = Ev("pass1", 0, 0, 0, FALSE, Null, FALSE)
  /\ UNCHANGED <<notes, currentNote, history, buttons, editorHidden, dom, autoSaveTimeout,
                 commitTimers, toggleDebounce, toggleTimers, isRestoring, now, ops,
                 undoMark, burst, tb>>

\* The pass-2 timer fires, lines 487-511: its finally block releases the guard.
Pass2TimerFires ==
  /\ restoreTimers # <<>>
  /\ Head(restoreTimers).left = 0
  /\ restoreTimers' = Tail(restoreTimers)
  /\ scrollRestoreTimeout' = AfterFire(scrollRestoreTimeout, restoreTimers)
  /\ isRestoring' = FALSE
  /\ ev' = Ev("pass2", 0, 0, 0, FALSE, Null, FALSE)
  /\ UNCHANGED <<notes, currentNote, history, buttons, editorHidden, dom, autoSaveTimeout,
                 commitTimers, toggleDebounce, toggleTimers, frames, now, ops,
                 undoMark, burst, tb>>

\* The commit timer's callback, lines 276-281, with the state it captured.
\* With no note open the comparison differs, push runs and updateNote(null)
\* throws a TypeError.
CommitCallback(previousState, t) ==
  IF JsonDiffers(previousState, currentNote)
  THEN LET h == HistPush(history, previousState)
           u == UpdateNote(currentNote, notes, t)
       IN /\ history' = h
          /\ buttons' = OnChange(h)
          /\ IF currentNote = Null
             THEN /\ ev' = Ev("autoSave", 1, 0, 0, FALSE, Null, TRUE)
                  /\ UNCHANGED <<notes, currentNote, now>>
             ELSE /\ now' = t
                  /\ currentNote' = u.note
                  /\ notes' = u.notes
                  /\ ev' = Ev("autoSave", 1, 0, 0, u.saved, Null, FALSE)
  ELSE /\ ev' = Ev("autoSave", 0, 0, 0, FALSE, Null, FALSE)
       /\ UNCHANGED <<notes, currentNote, history, buttons, now>>

\* The oldest commit timer fires.
CommitTimerFires(t) ==
  /\ commitTimers # <<>>
  /\ commitTimers' = Tail(commitTimers)
  /\ autoSaveTimeout' = AfterFire(autoSaveTimeout, commitTimers)
  /\ CommitCallback(Head(commitTimers).previousState, t)
  /\ burst' = IF burst.op = "handleNoteChange" /\ ~burst.closed
              THEN [burst EXCEPT !.pushes = IF @ + ev'.pushes < 2 THEN @ + ev'.pushes ELSE 2,
                                 !.closed = TRUE]
              ELSE burst
  /\ UNCHANGED <<editorHidden, dom, toggleDebounce, toggleTimers, isRestoring, frames,
                 scrollRestoreTimeout, restoreTimers, ops, undoMark, tb>>

\* Quantum milliseconds pass: no frame callback waits that long, and a timer
\* that is due fires first.
Tick ==
  /\ frames = <<>>
  /\ toggleTimers # <<>> \/ restoreTimers # <<>>
  /\ \A i \in DOMAIN toggleTimers : toggleTimers[i].left > 0
  /\ \A i \in DOMAIN restoreTimers : restoreTimers[i].left > 0
  /\ toggleTimers' = [i \in DOMAIN toggleTimers |-> [toggleTimers[i] EXCEPT !.left = @ - 1]]
  /\ restoreTimers' = [i \in DOMAIN restoreTimers |-> [restoreTimers[i] EXCEPT !.left = @ - 1]]
  /\ UNCHANGED <<notes, currentNote, history, buttons, editorHidden, dom, autoSaveTimeout,
                 commitTimers, toggleDebounce, isRestoring, frames, scrollRestoreTimeout,
                 now, ops, ev, undoMark, burst, tb>>

\* What a handler reading Date.now() can find.
DateNow == {t \in {now, now + 1} : t <= T0 + MaxClock}

\* The editor proper: the steps of the handlers with the view left aside.
Next ==
  \/ (\E i \in DOMAIN notes : openEditor(i)) /\ UNCHANGED <<viewVars, heapVars, call, steps>> /\ storage' = notes'
  \/ closeEditor /\ UNCHANGED <<viewVars, heapVars, call, steps>> /\ storage' = notes'
  \/ (\E value \in TitleValues : handleNoteChange(value)) /\ UNCHANGED <<viewVars, heapVars, call, steps>> /\ storage' = notes'
  \/ (\E t \in DateNow : handleUndo(t)) /\ UNCHANGED <<viewVars, heapVars, call, steps>> /\ storage' = notes'
  \/ (\E t \in DateNow : handleRedo(t)) /\ UNCHANGED <<viewVars, heapVars, call, steps>> /\ storage' = notes'
  \/ (\E t \in DateNow : addNewToggle(t)) /\ UNCHANGED <<viewVars, heapVars, call, steps>> /\ storage' = notes'
  \/ (\E toggleId \in DomIds, newTitle \in ToggleText, t \in DateNow :
        updateToggleTitle(toggleId, newTitle, t)) /\ UNCHANGED <<viewVars, heapVars, call, steps>> /\ storage' = notes'
  \/ (\E toggleId \in OpenDomIds, newContent \in ContentText, t \in DateNow :
        updateToggleContent(toggleId, newContent, t)) /\ UNCHANGED <<viewVars, heapVars, call, steps>> /\ storage' = notes'
  \/ (\E toggleId \in DomIds : toggleSection(toggleId)) /\ UNCHANGED <<viewVars, heapVars, call, steps>> /\ storage' = notes'
  \/ (\E t \in DateNow : ToggleDebounceFires(t)) /\ UNCHANGED <<viewVars, heapVars, call, steps>> /\ storage' = notes'
  \/ Pass1Frame /\ UNCHANGED <<viewVars, heapVars, call, steps>> /\ storage' = notes'
  \/ Pass2TimerFires /\ UNCHANGED <<viewVars, heapVars, call, steps>> /\ storage' = notes'
  \/ (\E t \in DateNow : CommitTimerFires(t)) /\ UNCHANGED <<viewVars, heapVars, call, steps>> /\ storage' = notes'
  \/ Tick /\ UNCHANGED <<viewVars, heapVars, call, steps>> /\ storage' = notes'

Spec == Init /\ [][Next]_vars

\* The event loop runs every frame callback that was requested and every timer
\* that was armed and not cleared, and time passes while a timer is pending.
\* Nothing obliges the user to act.
FairSpec ==
  /\ Spec
  /\ WF_vars(Pass1Frame /\ UNCHANGED <<viewVars, heapVars, call, steps>> /\ storage' = notes')
  /\ WF_vars(Pass2TimerFires /\ UNCHANGED <<viewVars, heapVars, call, steps>> /\ storage' = notes')
  /\ WF_vars((\E t \in DateNow : ToggleDebounceFires(t)) /\ UNCHANGED <<viewVars, heapVars, call, steps>> /\ storage' = notes')
  /\ WF_vars((\E t \in DateNow : CommitTimerFires(t)) /\ UNCHANGED <<viewVars, heapVars, call, steps>> /\ storage' = notes')
  /\ WF_vars(Tick /\ UNCHANGED <<viewVars, heapVars, call, steps>> /\ storage' = notes')


\* =================================================================== the view
\* The handlers again, this time with what they read from and write to the
\* rendered textareas ("regions") and the scroll container.  A handler of
\* ViewNext is the handler of Next together with its effect on the view.

\* ------------------------------------------------------------- view inputs
\* The scrollHeight a layout gives the textareas of one render.
ScrollHeights == {200, 400}
\* Where the user scrolls a textarea to.
ScrollTops == {0, 100}
\* What the user types into a textarea: two texts of equal _hashContent.
CollidingText == {"Aa", "BB"}
\* The delay of the second write of restoreEditorState and of
\* loadEditorStateFromStorage, in milliseconds.
STATE_RECHECK_DELAY == 50
RecheckTicks == STATE_RECHECK_DELAY \div Quantum

\* The UTF-16 code units of the texts of this model (String.charCodeAt).
CharCodes(text) ==
  CASE text = "" -> <<>>
    [] text = "t" -> <<116>>
    [] text = "tu" -> <<116, 117>>
    [] text = "Aa" -> <<65, 97>>
    [] text = "BB" -> <<66, 66>>

\* _hashContent(content), lines 537-544: hash = ((hash << 5) - hash) + code,
\* kept to 32 bits; no text of this model is long enough to overflow them.
RECURSIVE HashFrom(_, _)
HashFrom(hash, codes) ==
  IF codes = <<>> THEN hash
  ELSE HashFrom((hash * 32 - hash) + Head(codes), Tail(codes))

_hashContent(content) == HashFrom(0, CharCodes(content))

\* Math.round(n / d) for n >= 0 and d > 0.
MathRound(n, d) == (2 * n + d) \div (2 * d)

\* The entries of seq that are not null: Array.prototype.filter(Boolean).
FilterBoolean(seq) == SelectSeq(seq, LAMBDA x : x # Null)

\* renderEditor, lines 683-708: one fresh textarea per toggle, scrolled to the
\* top, the layout giving it scrollHeight height.
RenderRegions(note, height) ==
  [i \in DOMAIN note.toggles |->
     [id |-> note.toggles[i].id, content |-> note.toggles[i].content,
      scrollTop |-> 0, scrollHeight |-> height]]

\* saveEditorState, lines 306-326: the scroll state of the textarea of every
\* toggle of the note that has one.
SaveEditorState(note, regs) ==
  FilterBoolean([i \in DOMAIN note.toggles |->
    LET k == FindIndex(regs, note.toggles[i].id)
    IN IF k = 0 THEN Null
       ELSE [id |-> regs[k].id, scrollTop |-> regs[k].scrollTop,
             scrollHeight |-> regs[k].scrollHeight]])

\* Lines 430-441: the scrollPositions map of _handleToggleSection.
CaptureScrollPositions(note, regs) ==
  FilterBoolean([i \in DOMAIN note.toggles |->
    LET k == FindIndex(regs, note.toggles[i].id)
    IN IF k = 0 THEN Null
       ELSE [id |-> regs[k].id, scrollTop |-> regs[k].scrollTop,
             scrollHeight |-> regs[k].scrollHeight, content |-> regs[k].content,
             contentHash |-> _hashContent(regs[k].content)]])

\* Lines 468-473 and 477-482: the captured scrollTop rescaled to the live
\* scrollHeight.
Rescaled(state, scrollHeight) ==
  IF state.scrollHeight # scrollHeight
  THEN MathRound(state.scrollTop * scrollHeight, state.scrollHeight)
  ELSE state.scrollTop

\* The textarea of the id is there; its content is not looked at.
TextareaThere(regs, state) == FindIndex(regs, state.id) # 0

\* Lines 465-466, 491-492, 499-500: the textarea of the id is there and its
\* content hashes to the captured hash.
HashMatches(regs, state) ==
  LET k == FindIndex(regs, state.id)
  IN k # 0 /\ _hashContent(regs[k].content) = state.contentHash

\* A re-render replaces the textareas: a frame callback that holds one of the
\* old ones writes to an element no longer in the document.
Detached(queue) ==
  [i \in DOMAIN queue |->
     IF queue[i].kind = "nested" THEN [queue[i] EXCEPT !.attached = FALSE] ELSE queue[i]]


\* ------------------------------------------------- the writes of the passes
\* Pass 1, lines 464-484, over the first n captured states: a textarea other
\* than the toggled one whose hash matches gets the rescaled scrollTop.
RECURSIVE Pass1Regions(_, _, _)
Pass1Regions(regs, rec, n) ==
  IF n = 0 THEN regs
  ELSE LET done == Pass1Regions(regs, rec, n - 1)
           state == rec.scrollPositions[n]
           k == FindIndex(done, state.id)
       IN IF HashMatches(done, state) /\ state.id # rec.toggleId
          THEN [done EXCEPT ![k].scrollTop = Rescaled(state, done[k].scrollHeight)]
          ELSE done

\* Lines 467-475: for the toggled textarea, when it is open and its hash
\* matches, pass 1 requests a further frame that will do the write.
NestedFrames(regs, rec) ==
  LET due == SelectSeq(rec.scrollPositions,
                       LAMBDA state : /\ state.id = rec.toggleId
                                      /\ rec.isOpen
                                      /\ HashMatches(regs, state))
  IN [i \in DOMAIN due |-> [kind |-> "nested", state |-> due[i], attached |-> TRUE]]

\* Pass 2, lines 488-503, over the first n captured states: a textarea whose
\* hash matches gets the captured scrollTop as it is; the toggled one only
\* when it is open.
RECURSIVE Pass2Regions(_, _, _)
Pass2Regions(regs, rec, n) ==
  IF n = 0 THEN regs
  ELSE LET done == Pass2Regions(regs, rec, n - 1)
           state == rec.scrollPositions[n]
           k == FindIndex(done, state.id)
       IN IF HashMatches(done, state) /\ (state.id # rec.toggleId \/ rec.isOpen)
          THEN [done EXCEPT ![k].scrollTop = state.scrollTop]
          ELSE done

\* Lines 331-336, 345-350, 147-152 and 161-166, over the first n saved states:
\* a textarea that is there gets the saved scrollTop.
RECURSIVE RestoreRegions(_, _, _)
RestoreRegions(regs, states, n) ==
  IF n = 0 THEN regs
  ELSE LET done == RestoreRegions(regs, states, n - 1)
           k == FindIndex(done, states[n].id)
       IN IF k # 0 THEN [done EXCEPT ![k].scrollTop = states[n].scrollTop] ELSE done

\* The ids of the textareas a step gave another scrollTop or wrote again.
WrittenBy(states, test(_)) ==
  {states[i].id : i \in {j \in DOMAIN states : test(states[j])}}

\* The view state of the note in localStorage, or null.
SavedState(noteId) ==
  IF \E st \in editorStates : st.noteId = noteId
  THEN CHOOSE st \in editorStates : st.noteId = noteId
  ELSE Null


\* ------------------------------------------------------ handlers with view
\* saveEditorState(), lines 306-326, on the textareas in the document.
SaveView(note) ==
  /\ savedToggleStates' = SaveEditorState(note, regions)
  /\ lastKnownScrollPosition' = editorScroll
  /\ savedFrom' = regions

\* renderEditor(true), lines 674-713: new textareas and a restoration frame.
RenderAndRestore(height) ==
  /\ regions' = RenderRegions(currentNote', height)
  /\ viewFrames' = Append(Detached(viewFrames), [kind |-> "restore"])

\* openEditor(note) with its view: renderEditor() saves what the document of
\* the last session still shows, renders, and loadEditorStateFromStorage
\* (lines 137-171) requests a frame when a state is stored for the note.
openEditorView(i, height) ==
  /\ openEditor(i)
  /\ SaveView(currentNote')
  /\ regions' = RenderRegions(currentNote', height)
  /\ LET savedState == SavedState(currentNote'.id)
     IN viewFrames' = IF savedState = Null
                      THEN Detached(viewFrames)
                      ELSE Append(Detached(viewFrames),
                                  [kind |-> "load", savedState |-> savedState])
  /\ vev' = [op |-> "openEditor"]
  /\ UNCHANGED <<editorScroll, reconciliation, viewTimers, editorStates>>

\* closeEditor() with its view: saveEditorStateToStorage, lines 105-135.
closeEditorView ==
  /\ closeEditor
  /\ editorStates' =
       IF currentNote = Null THEN editorStates
       ELSE {st \in editorStates : st.noteId # currentNote.id} \cup
            {[noteId |-> currentNote.id,
              toggleStates |-> SaveEditorState(currentNote, regions),
              editorScrollTop |-> editorScroll,
              timestamp |-> now]}
  /\ vev' = [op |-> "closeEditor"]
  /\ UNCHANGED <<regions, editorScroll, reconciliation, viewFrames, viewTimers,
                 savedToggleStates, lastKnownScrollPosition, savedFrom>>

\* handleUndo() and handleRedo() with their view: saveEditorState() first,
\* renderEditor(true) when a state came back.
AfterUndoRedo(height) ==
  IF ev'.threw
  THEN /\ vev' = [op |-> "threw"]
       /\ UNCHANGED <<regions, editorScroll, reconciliation, viewFrames, viewTimers,
                      savedToggleStates, lastKnownScrollPosition, editorStates, savedFrom>>
  ELSE /\ SaveView(currentNote)
       /\ vev' = [op |-> "save"]
       /\ IF ev'.ret = Null
          THEN UNCHANGED <<regions, viewFrames>>
          ELSE RenderAndRestore(height)
       /\ UNCHANGED <<editorScroll, reconciliation, viewTimers, editorStates>>

handleUndoView(t, height) == handleUndo(t) /\ AfterUndoRedo(height)

handleRedoView(t, height) == handleRedo(t) /\ AfterUndoRedo(height)

\* addNewToggle() with its view.
addNewToggleView(t, height) ==
  /\ addNewToggle(t)
  /\ vev' = [op |-> "save"]
  /\ IF currentNote = Null
     THEN UNCHANGED <<regions, viewFrames, savedToggleStates, lastKnownScrollPosition,
                      savedFrom>>
     ELSE SaveView(currentNote) /\ RenderAndRestore(height)
  /\ UNCHANGED <<editorScroll, reconciliation, viewTimers, editorStates>>

\* An input event on a textarea: the document holds what the user typed.
updateToggleContentView(toggleId, newContent, t) ==
  /\ updateToggleContent(toggleId, newContent, t)
  /\ LET k == FindIndex(regions, toggleId)
     IN regions' = IF k = 0 THEN regions ELSE [regions EXCEPT ![k].content = newContent]
  /\ vev' = [op |-> "input"]
  /\ UNCHANGED <<editorScroll, reconciliation, viewFrames, viewTimers, savedToggleStates,
                 lastKnownScrollPosition, editorStates, savedFrom>>

\* The user scrolls the textarea at place k to scrollTop.
scrollRegion(k, scrollTop) ==
  /\ ops < MaxOps
  /\ ~editorHidden
  /\ k \in DOMAIN regions
  /\ regions[k].scrollTop # scrollTop
  /\ regions' = [regions EXCEPT ![k].scrollTop = scrollTop]
  /\ ops' = ops + 1
  /\ ev' = Ev("scroll", 0, 0, 0, FALSE, Null, FALSE)
  /\ vev' = [op |-> "scroll"]
  /\ OtherInput
  /\ UNCHANGED <<notes, currentNote, history, buttons, editorHidden, dom, autoSaveTimeout,
                 commitTimers, toggleDebounce, toggleTimers, isRestoring, frames,
                 scrollRestoreTimeout, restoreTimers, now>>
  /\ UNCHANGED <<editorScroll, reconciliation, viewFrames, viewTimers, savedToggleStates,
                 lastKnownScrollPosition, editorStates, savedFrom>>

\* toggleSection(toggleId) touches no part of the view.
toggleSectionView(toggleId) ==
  /\ toggleSection(toggleId)
  /\ vev' = [op |-> "toggleSection"]
  /\ UNCHANGED <<regions, editorScroll, reconciliation, viewFrames, viewTimers,
                 savedToggleStates, lastKnownScrollPosition, editorStates, savedFrom>>


\* ----------------------------------------------------- callbacks with view
\* A callback of the view alone leaves the editor proper as it is.
ViewCallback(op) ==
  /\ ev' = Ev(op, 0, 0, 0, FALSE, Null, FALSE)
  /\ UNCHANGED <<notes, currentNote, history, buttons, editorHidden, dom, autoSaveTimeout,
                 commitTimers, toggleDebounce, toggleTimers, isRestoring, frames,
                 scrollRestoreTimeout, restoreTimers, now, ops, undoMark, burst, tb>>

\* The statements of _handleToggleSection in the order they run: the capture
\* (lines 425-441), the flip (451), history.push (452), updateNote (453) and
\* renderEditor (456).
HandleStepsRenderFirst == <<"capture", "flip", "render", "push", "persist">>

HandleSteps == <<"capture", "flip", "push", "persist", "render">>

\* The statements of the pass-1 frame in the order they run: the container's
\* scrollTop (lines 460-462), then the textareas (464-485).
Pass1Steps == <<"container", "pass1">>

\* The debounce timer fires: _handleToggleSection with its view.  Past the
\* guard it captures container and textareas (lines 425-441); a toggle that
\* is not found throws to the outer catch (lines 520-523), which writes
\* nothing; else renderEditor(false) saves, renders and pass 1 is requested.
ToggleDebounceFiresView(t, height) ==
  /\ ToggleDebounceFires(t)
  /\ IF ev'.ret.dropped \/ ev'.threw
     THEN /\ vev' = [op |-> IF ev'.threw THEN "threw" ELSE "dropped"]
          /\ steps' = IF ev'.threw THEN SubSeq(HandleSteps, 1, 1) ELSE steps
          /\ UNCHANGED <<regions, reconciliation, viewFrames, savedToggleStates,
                         lastKnownScrollPosition, savedFrom>>
     ELSE LET toggleId == Head(toggleTimers).toggleId
              index == FindIndex(currentNote'.toggles, toggleId)
          IN /\ reconciliation' =
                  [toggleId |-> toggleId,
                   isOpen |-> currentNote'.toggles[index].isOpen,
                   editorScrollTop |-> editorScroll,
                   scrollPositions |-> CaptureScrollPositions(currentNote, regions)]
             /\ SaveView(currentNote')
             /\ regions' = RenderRegions(currentNote', height)
             /\ viewFrames' = Append(Detached(viewFrames), [kind |-> "pass1"])
             /\ vev' = [op |-> "capture"]
             /\ steps' = HandleSteps
  /\ UNCHANGED <<editorScroll, viewTimers, editorStates>>

\* The frame of pass 1 with its view, lines 458-486.
Pass1FrameView ==
  /\ viewFrames # <<>>
  /\ Head(viewFrames).kind = "pass1"
  /\ Pass1Frame
  /\ steps' = steps \o Pass1Steps
  /\ LET rec == reconciliation
     IN /\ editorScroll' = rec.editorScrollTop
        /\ regions' = Pass1Regions(regions, rec, Len(rec.scrollPositions))
        /\ viewFrames' = Tail(viewFrames) \o NestedFrames(regions, rec)
        /\ vev' = [op |-> "pass1", rec |-> rec, before |-> regions,
                   written |-> WrittenBy(rec.scrollPositions,
                       LAMBDA state : HashMatches(regions, state) /\ state.id # rec.toggleId)]
  /\ UNCHANGED <<reconciliation, viewTimers, savedToggleStates, lastKnownScrollPosition,
                 editorStates, savedFrom>>

\* The frame pass 1 requested for the toggled textarea, lines 468-475: it
\* writes to the element pass 1 found, without looking at its content again.
NestedFrame ==
  /\ viewFrames # <<>>
  /\ Head(viewFrames).kind = "nested"
  /\ LET state == Head(viewFrames).state
         k == FindIndex(regions, state.id)
         there == Head(viewFrames).attached /\ k # 0
     IN /\ regions' = IF there
                      THEN [regions EXCEPT ![k].scrollTop = Rescaled(state, regions[k].scrollHeight)]
                      ELSE regions
        /\ vev' = [op |-> "nested", state |-> state,
                   written |-> IF there THEN {state.id} ELSE {}]
  /\ steps' = Append(steps, "nested")
  /\ viewFrames' = Tail(viewFrames)
  /\ ViewCallback("nested")
  /\ UNCHANGED <<editorScroll, reconciliation, viewTimers, savedToggleStates,
                 lastKnownScrollPosition, editorStates, savedFrom>>

\* The pass-2 timer with its view, lines 487-511.
Pass2TimerFiresView ==
  /\ Pass2TimerFires
  /\ steps' = Append(steps, "pass2")
  /\ LET rec == reconciliation
     IN /\ regions' = Pass2Regions(regions, rec, Len(rec.scrollPositions))
        /\ vev' = [op |-> "pass2", rec |-> rec, before |-> regions,
                   written |-> WrittenBy(rec.scrollPositions,
                       LAMBDA state : /\ HashMatches(regions, state)
                                      /\ (state.id # rec.toggleId \/ rec.isOpen))]
  /\ reconciliation' = Null
  /\ UNCHANGED <<editorScroll, viewFrames, viewTimers, savedToggleStates,
                 lastKnownScrollPosition, editorStates, savedFrom>>

\* The frame of restoreEditorState, lines 329-354: it reads
\* this.savedToggleStates as it is when the frame runs.
RestoreFrame ==
  /\ viewFrames # <<>>
  /\ Head(viewFrames).kind = "restore"
  /\ viewFrames' = Tail(viewFrames)
  /\ regions' = IF savedToggleStates = Null THEN regions
                ELSE RestoreRegions(regions, savedToggleStates, Len(savedToggleStates))
  /\ editorScroll' = lastKnownScrollPosition
  /\ viewTimers' = Append(viewTimers, [kind |-> "restore", left |-> RecheckTicks])
  /\ vev' = [op |-> "restore", before |-> regions,
             written |-> IF savedToggleStates = Null THEN {}
                         ELSE WrittenBy(savedToggleStates,
                                        LAMBDA state : FindIndex(regions, state.id) # 0)]
  /\ ViewCallback("restoreEditorState")
  /\ UNCHANGED <<reconciliation, savedToggleStates, lastKnownScrollPosition, editorStates,
                 savedFrom>>

\* The frame of loadEditorStateFromStorage, lines 145-170, with the state it
\* read from storage when the editor was opened.
LoadFrame ==
  /\ viewFrames # <<>>
  /\ Head(viewFrames).kind = "load"
  /\ viewFrames' = Tail(viewFrames)
  /\ LET savedState == Head(viewFrames).savedState
     IN /\ regions' = RestoreRegions(regions, savedState.toggleStates,
                                     Len(savedState.toggleStates))
        /\ editorScroll' = IF savedState.editorScrollTop # 0
                           THEN savedState.editorScrollTop ELSE editorScroll
        /\ viewTimers' = Append(viewTimers, [kind |-> "load", left |-> RecheckTicks,
                                             states |-> savedState.toggleStates])
        /\ vev' = [op |-> "load",
                   written |-> WrittenBy(savedState.toggleStates,
                                         LAMBDA state : FindIndex(regions, state.id) # 0)]
  /\ ViewCallback("loadEditorState")
  /\ UNCHANGED <<reconciliation, savedToggleStates, lastKnownScrollPosition, editorStates,
                 savedFrom>>

\* The timer of either restoration, lines 344-353 and 160-169: a textarea
\* whose scrollTop is not the saved one gets it again.
RecheckTimerFires ==
  /\ viewTimers # <<>>
  /\ Head(viewTimers).left = 0
  /\ viewTimers' = Tail(viewTimers)
  /\ LET states == IF Head(viewTimers).kind = "load" THEN Head(viewTimers).states
                   ELSE IF savedToggleStates = Null THEN <<>> ELSE savedToggleStates
     IN /\ regions' = RestoreRegions(regions, states, Len(states))
        /\ vev' = [op |-> "recheck",
                   written |-> WrittenBy(states,
                       LAMBDA state : LET k == FindIndex(regions, state.id)
                                      IN k # 0 /\ regions[k].scrollTop # state.scrollTop)]
  /\ ViewCallback("recheck")
  /\ UNCHANGED <<editorScroll, reconciliation, viewFrames, savedToggleStates,
                 lastKnownScrollPosition, editorStates, savedFrom>>

\* Quantum milliseconds pass, for the timers of the view as well.
ViewTick ==
  /\ frames = <<>>
  /\ viewFrames = <<>>
  /\ toggleTimers # <<>> \/ restoreTimers # <<>> \/ viewTimers # <<>>
  /\ \A i \in DOMAIN toggleTimers : toggleTimers[i].left > 0
  /\ \A i \in DOMAIN restoreTimers : restoreTimers[i].left > 0
  /\ \A i \in DOMAIN viewTimers : viewTimers[i].left > 0
  /\ toggleTimers' = [i \in DOMAIN toggleTimers |-> [toggleTimers[i] EXCEPT !.left = @ - 1]]
  /\ restoreTimers' = [i \in DOMAIN restoreTimers |-> [restoreTimers[i] EXCEPT !.left = @ - 1]]
  /\ viewTimers' = [i \in DOMAIN viewTimers |-> [viewTimers[i] EXCEPT !.left = @ - 1]]
  /\ UNCHANGED <<notes, currentNote, history, buttons, editorHidden, dom, autoSaveTimeout,
                 commitTimers, toggleDebounce, isRestoring, frames, scrollRestoreTimeout,
                 now, ops, ev, undoMark, burst, tb>>
  /\ UNCHANGED <<regions, editorScroll, reconciliation, viewFrames, savedToggleStates,
                 lastKnownScrollPosition, editorStates, savedFrom, vev>>

\* A profile in which an earlier run of the program left a view state for the
\* stored note: its first textarea and the container scrolled down.
StoredViewState ==
  [noteId |-> T1,
   toggleStates |-> <<[id |-> T1, scrollTop |-> 100, scrollHeight |-> 200]>>,
   editorScrollTop |-> 100,
   timestamp |-> T1]

ViewSpecInit ==
  /\ EditorInit
  /\ ViewInit
  /\ HeapInit
  /\ ManagerInit
  /\ editorStates \in {{}, {StoredViewState}}

OpenRegions == {k \in DOMAIN regions : k \in DOMAIN dom /\ dom[k].isOpen}

ViewNext ==
  \/ (\E i \in DOMAIN notes, height \in ScrollHeights : openEditorView(i, height))
       /\ UNCHANGED <<heapVars, call, steps>> /\ storage' = notes'
  \/ closeEditorView /\ UNCHANGED <<heapVars, call, steps>> /\ storage' = notes'
  \/ (\E height \in ScrollHeights : handleUndoView(now, height)) /\ UNCHANGED <<heapVars, call, steps>> /\ storage' = notes'
  \/ (\E height \in ScrollHeights : handleRedoView(now, height)) /\ UNCHANGED <<heapVars, call, steps>> /\ storage' = notes'
  \/ (\E height \in ScrollHeights : addNewToggleView(now, height)) /\ UNCHANGED <<heapVars, call, steps>> /\ storage' = notes'
  \/ (\E toggleId \in OpenDomIds, newContent \in CollidingText :
        updateToggleContentView(toggleId, newContent, now)) /\ UNCHANGED <<heapVars, call, steps>> /\ storage' = notes'
  \/ (\E k \in OpenRegions, scrollTop \in ScrollTops : scrollRegion(k, scrollTop))
       /\ UNCHANGED <<heapVars, call, steps>> /\ storage' = notes'
  \/ (\E toggleId \in DomIds : toggleSectionView(toggleId)) /\ UNCHANGED <<heapVars, call, steps>> /\ storage' = notes'
  \/ (\E height \in ScrollHeights : ToggleDebounceFiresView(now, height))
       /\ UNCHANGED <<heapVars, call>> /\ storage' = notes'
  \/ Pass1FrameView /\ UNCHANGED <<heapVars, call>> /\ storage' = notes'
  \/ NestedFrame /\ UNCHANGED <<heapVars, call>> /\ storage' = notes'
  \/ Pass2TimerFiresView /\ UNCHANGED <<heapVars, call>> /\ storage' = notes'
  \/ RestoreFrame /\ UNCHANGED <<heapVars, call, steps>> /\ storage' = notes'
  \/ LoadFrame /\ UNCHANGED <<heapVars, call, steps>> /\ storage' = notes'
  \/ RecheckTimerFires /\ UNCHANGED <<heapVars, call, steps>> /\ storage' = notes'
  \/ ViewTick /\ UNCHANGED <<heapVars, call, steps>> /\ storage' = notes'

ViewSpec == ViewSpecInit /\ [][ViewNext]_vars


\* ============================================================== two sessions
\* The editor proper with two notes in the store, from the moment the user has
\* clicked the card of the first: openEditor(notes[1]) has run, and ops counts
\* the user inputs from then on.  The second note was created right after the
\* first, when the ids of the first note's toggles were used up.
SessionInit ==
  /\ notes = <<CreateNote(T1), CreateNote(T1 + INITIAL_TOGGLES)>>
  /\ currentNote = Clone(CreateNote(T1))
  /\ history = HistClear
  /\ buttons = OnChange(HistClear)
  /\ editorHidden = FALSE
  /\ dom = Rendered(CreateNote(T1))
  /\ autoSaveTimeout = "null"
  /\ commitTimers = <<>>
  /\ toggleDebounce = "null"
  /\ toggleTimers = <<>>
  /\ isRestoring = FALSE
  /\ frames = <<>>
  /\ scrollRestoreTimeout = "null"
  /\ restoreTimers = <<>>
  /\ now = T0
  /\ ops = 0
  /\ ev = Ev("openEditor", 0, 1, 0, FALSE, Null, FALSE)
  /\ undoMark = Null
  /\ burst = NoBurst
  /\ tb = Null
  /\ ViewInit
  /\ HeapInit
  /\ ManagerInit
  /\ editorStates = {}

SessionSpec == SessionInit /\ [][Next]_vars


\* ================================================================ the objects
\* The handlers once more, this time with the notes as JavaScript objects:
\* an assignment to a field changes the object for everyone who holds a
\* reference to it.  HistoryManager keeps the references it is handed.

\* The object a reference names; null for 0.
Deref(ref) == IF ref = 0 THEN Null ELSE heap[ref]

\* The reference handed on as it is: no copy is made.
SnapshotByReference(h, ref) == [heap |-> h, ref |-> ref]

\* JSON.parse(JSON.stringify(this.currentNote)): a new object, a copy field
\* by field of the one at ref.
Snapshot(h, ref) == [heap |-> Append(h, Clone(h[ref])), ref |-> Len(h) + 1]

\* The references held on the two stacks.
Stacked ==
  {stackRefs.undoStack[i] : i \in DOMAIN stackRefs.undoStack} \cup
  {stackRefs.redoStack[i] : i \in DOMAIN stackRefs.redoStack}

\* noteManager.updateNote(note), line 30: note.updated is assigned in place.
Stamped(h, ref, t) == [h EXCEPT ![ref].updated = t]

\* openEditor(note), line 88: the current note is a copy of the stored one.
openEditorHeap(i) ==
  /\ openEditor(i)
  /\ heap' = Append(heap, Clone(notes[i]))
  /\ currentRef' = Len(heap) + 1
  /\ stackRefs' = HistClear
  /\ UNCHANGED closureRefs

\* closeEditor(), lines 100-101.
closeEditorHeap ==
  /\ closeEditor
  /\ currentRef' = 0
  /\ stackRefs' = HistClear
  /\ UNCHANGED <<heap, closureRefs>>

\* handleNoteChange(e), lines 263-282: the copy goes into the closure of the
\* timer, the title of the live object is assigned.
handleNoteChangeHeap(value) ==
  /\ handleNoteChange(value)
  /\ IF currentRef = 0
     THEN UNCHANGED heapVars
     ELSE LET previousState == Snapshot(heap, currentRef)
          IN /\ heap' = [previousState.heap EXCEPT ![currentRef].title = value]
             /\ closureRefs' = Append(ClearTimeout(autoSaveTimeout, closureRefs),
                                      previousState.ref)
             /\ UNCHANGED <<currentRef, stackRefs>>

\* The commit timer's callback, lines 276-281.
CommitTimerFiresHeap(t) ==
  /\ CommitTimerFires(t)
  /\ closureRefs' = Tail(closureRefs)
  /\ LET previousState == Head(closureRefs)
     IN IF JsonDiffers(Deref(previousState), Deref(currentRef))
        THEN /\ stackRefs' = HistPush(stackRefs, previousState)
             /\ heap' = IF currentRef = 0 THEN heap ELSE Stamped(heap, currentRef, t)
        ELSE UNCHANGED <<heap, stackRefs>>
  /\ UNCHANGED currentRef

\* handleUndo(), lines 287-290: the live object goes onto the redo stack, the
\* popped one becomes the live object and is stamped.
handleUndoHeap(t) ==
  /\ handleUndo(t)
  /\ IF currentRef = 0 \/ stackRefs.undoStack = <<>>
     THEN UNCHANGED heapVars
     ELSE LET r == HistUndo(stackRefs, currentRef)
          IN /\ stackRefs' = r.h
             /\ currentRef' = r.ret
             /\ heap' = Stamped(heap, r.ret, t)
             /\ UNCHANGED closureRefs

\* handleRedo(), lines 298-301.
handleRedoHeap(t) ==
  /\ handleRedo(t)
  /\ IF currentRef = 0 \/ stackRefs.redoStack = <<>>
     THEN UNCHANGED heapVars
     ELSE LET r == HistRedo(stackRefs, currentRef)
          IN /\ stackRefs' = r.h
             /\ currentRef' = r.ret
             /\ heap' = Stamped(heap, r.ret, t)
             /\ UNCHANGED closureRefs

\* addNewToggle(), lines 357-375: the copy is pushed, the new toggle is
\* pushed onto the toggles of the live object.
addNewToggleHeap(t) ==
  /\ addNewToggle(t)
  /\ IF currentRef = 0
     THEN UNCHANGED heapVars
     ELSE LET previousState == Snapshot(heap, currentRef)
              newToggle == [id |-> t,
                            title |-> "Section " \o
                                      ToString(Len(heap[currentRef].toggles) + 1),
                            content |-> "",
                            isOpen |-> TRUE]
          IN /\ heap' = Stamped([previousState.heap EXCEPT
                                   ![currentRef].toggles = Append(@, newToggle)],
                                currentRef, t)
             /\ stackRefs' = HistPush(stackRefs, previousState.ref)
             /\ UNCHANGED <<currentRef, closureRefs>>

\* updateToggleTitle / updateToggleContent, lines 377-399: the copy is
\* pushed, the field of the toggle of the live object is assigned.
UpdateToggleFieldHeap(field, toggleId, text, t) ==
  IF currentRef = 0
  THEN UNCHANGED heapVars
  ELSE LET previousState == Snapshot(heap, currentRef)
           index == FindIndex(heap[currentRef].toggles, toggleId)
       IN IF index = 0
          THEN /\ heap' = previousState.heap
               /\ UNCHANGED <<currentRef, stackRefs, closureRefs>>
          ELSE /\ heap' = Stamped([previousState.heap EXCEPT
                                     ![currentRef].toggles[index][field] = text],
                                  currentRef, t)
               /\ stackRefs' = HistPush(stackRefs, previousState.ref)
               /\ UNCHANGED <<currentRef, closureRefs>>

updateToggleTitleHeap(toggleId, newTitle, t) ==
  /\ updateToggleTitle(toggleId, newTitle, t)
  /\ UpdateToggleFieldHeap("title", toggleId, newTitle, t)

updateToggleContentHeap(toggleId, newContent, t) ==
  /\ updateToggleContent(toggleId, newContent, t)
  /\ UpdateToggleFieldHeap("content", toggleId, newContent, t)

\* The debounce timer fires: _handleToggleSection, lines 420 and 443-454.  Past
\* the guard the copy is made; the toggle of the live object is flipped in
\* place, the copy is pushed; a toggle that is not found throws after the copy.
ToggleDebounceFiresHeap(t) ==
  /\ ToggleDebounceFires(t)
  /\ IF isRestoring \/ currentRef = 0
     THEN UNCHANGED heapVars
     ELSE LET previousState == Snapshot(heap, currentRef)
              index == FindIndex(heap[currentRef].toggles, Head(toggleTimers).toggleId)
          IN IF index = 0
             THEN /\ heap' = previousState.heap
                  /\ UNCHANGED <<currentRef, stackRefs, closureRefs>>
             ELSE /\ heap' = Stamped([previousState.heap EXCEPT
                                        ![currentRef] = Flipped(@, index)],
                                     currentRef, t)
                  /\ stackRefs' = HistPush(stackRefs, previousState.ref)
                  /\ UNCHANGED <<currentRef, closureRefs>>

HeapNext ==
  \/ (\E i \in DOMAIN notes : openEditorHeap(i)) /\ UNCHANGED <<viewVars, call, steps>> /\ storage' = notes'
  \/ closeEditorHeap /\ UNCHANGED <<viewVars, call, steps>> /\ storage' = notes'
  \/ (\E value \in TitleValues : handleNoteChangeHeap(value)) /\ UNCHANGED <<viewVars, call, steps>> /\ storage' = notes'
  \/ (\E t \in DateNow : handleUndoHeap(t)) /\ UNCHANGED <<viewVars, call, steps>> /\ storage' = notes'
  \/ (\E t \in DateNow : handleRedoHeap(t)) /\ UNCHANGED <<viewVars, call, steps>> /\ storage' = notes'
  \/ (\E t \in DateNow : addNewToggleHeap(t)) /\ UNCHANGED <<viewVars, call, steps>> /\ storage' = notes'
  \/ (\E toggleId \in DomIds, newTitle \in ToggleText, t \in DateNow :
        updateToggleTitleHeap(toggleId, newTitle, t)) /\ UNCHANGED <<viewVars, call, steps>> /\ storage' = notes'
  \/ (\E toggleId \in OpenDomIds, newContent \in ContentText, t \in DateNow :
        updateToggleContentHeap(toggleId, newContent, t)) /\ UNCHANGED <<viewVars, call, steps>> /\ storage' = notes'
  \/ (\E toggleId \in DomIds : toggleSection(toggleId)) /\ UNCHANGED <<viewVars, heapVars, call, steps>> /\ storage' = notes'
  \/ (\E t \in DateNow : ToggleDebounceFiresHeap(t)) /\ UNCHANGED <<viewVars, call, steps>> /\ storage' = notes'
  \/ Pass1Frame /\ UNCHANGED <<viewVars, heapVars, call, steps>> /\ storage' = notes'
  \/ Pass2TimerFires /\ UNCHANGED <<viewVars, heapVars, call, steps>> /\ storage' = notes'
  \/ (\E t \in DateNow : CommitTimerFiresHeap(t)) /\ UNCHANGED <<viewVars, call, steps>> /\ storage' = notes'
  \/ Tick /\ UNCHANGED <<viewVars, heapVars, call, steps>> /\ storage' = notes'

HeapSpec == Init /\ [][HeapNext]_vars

\* The notes as values, as the editor proper has them, are what the
\* references name: the current note and every entry of the two stacks.
ValuesAreObjects ==
  /\ currentNote = Deref(currentRef)
  /\ history.undoStack = [i \in DOMAIN stackRefs.undoStack |-> Deref(stackRefs.undoStack[i])]
  /\ history.redoStack = [i \in DOMAIN stackRefs.redoStack |-> Deref(stackRefs.redoStack[i])]
  /\ Len(closureRefs) = Len(commitTimers)
  /\ \A i \in DOMAIN closureRefs :
       commitTimers[i].previousState = Deref(closureRefs[i])


\* ================================================================== pruning
\* cleanupOldEditorStates(), lines 757-769, as a function of the stored view
\* states and of Date.now().

\* The retention window of line 759, in milliseconds.
RETENTION_WINDOW == 7 * 24 * 60 * 60 * 1000

\* Lines 761-766: an entry stays if it has a timestamp and the timestamp is
\* later than Date.now() minus the window.
CleanupOldEditorStates(states, t) ==
  {state \in states : state.timestamp # 0 /\ state.timestamp > t - RETENTION_WINDOW}

cleanupOldEditorStates ==
  /\ editorStates' = CleanupOldEditorStates(editorStates, now)
  /\ vev' = [op |-> "cleanup", before |-> editorStates]
  /\ UNCHANGED <<editorVars, heapVars, managerVars, steps>>
  /\ UNCHANGED <<regions, editorScroll, reconciliation, viewFrames, viewTimers,
                 savedToggleStates, lastKnownScrollPosition, savedFrom>>

\* The timestamps tried: none, the start of the window at t, one millisecond
\* to either side of it, and t itself.
Timestamps(t) ==
  {0, t - RETENTION_WINDOW - 1, t - RETENTION_WINDOW, t - RETENTION_WINDOW + 1, t}

\* The notes that may have a stored view state.
StoredNoteIds == {T1, T1 + INITIAL_TOGGLES, T0}

\* The editor is idle, a retention window and more after the notes were
\* made, and localStorage holds at most one view state per note.
PruneInit ==
  /\ notes = <<CreateNote(T1)>>
  /\ currentNote = Null
  /\ history = HistClear
  /\ buttons = OnChange(HistClear)
  /\ editorHidden = TRUE
  /\ dom = <<>>
  /\ autoSaveTimeout = "null"
  /\ commitTimers = <<>>
  /\ toggleDebounce = "null"
  /\ toggleTimers = <<>>
  /\ isRestoring = FALSE
  /\ frames = <<>>
  /\ scrollRestoreTimeout = "null"
  /\ restoreTimers = <<>>
  /\ now = T0 + RETENTION_WINDOW
  /\ ops = 0
  /\ ev = Ev("init", 0, 0, 0, FALSE, Null, FALSE)
  /\ undoMark = Null
  /\ burst = NoBurst
  /\ tb = Null
  /\ ViewInit
  /\ HeapInit
  /\ ManagerInit
  /\ \E stamp \in [StoredNoteIds -> Timestamps(now) \cup {-1}] :
       editorStates = {[noteId |-> id, toggleStates |-> <<>>, editorScrollTop |-> 0,
                        timestamp |-> stamp[id]] :
                       id \in {n \in StoredNoteIds : stamp[n] # -1}}

PruneNext == cleanupOldEditorStates

PruneSpec == PruneInit /\ [][PruneNext]_vars

\* ------------------------------------------------------ the note manager
\* The methods of NoteManager (src/unnamed/part_000) called one after
\* another, as the list view calls them with no note open.  A file being
\* imported is what JSON.parse makes of its text, or a text that does not
\* parse.  A JSON value carries its type; an object is a record, and
\* `key in object` asks for the key in its domain.
NoteKeys == {"id", "title", "toggles", "created", "updated"}
ToggleKeys == {"id", "title", "content", "isOpen"}

JsonNull == [type |-> "null"]
JsonNumber == [type |-> "number"]
JsonString == [type |-> "string"]
JsonArray(items) == [type |-> "array", items |-> items]
JsonObject(fields) == [type |-> "object", fields |-> fields]

Unparsable == [parses |-> FALSE]
Parsable(value) == [parses |-> TRUE, value |-> value]

\* A record without the keys left out.
Only(record, keys) == [k \in keys |-> record[k]]

\* A toggle as an exported note holds it.
FileToggle == [id |-> T1, title |-> "Section 1", content |-> "", isOpen |-> TRUE]

\* A note as exportSingleNote() wrote it, lines 61-67.
FileNote(id, title, toggles) ==
  [id |-> id, title |-> title, toggles |-> toggles, created |-> T1, updated |-> T1]

\* The files that are the note of an export: one whose id is in the list
\* from the start, one whose id Date.now() has at start-up.
ValidFiles ==
  {Parsable(JsonObject(FileNote(id, title, JsonArray(<<JsonObject(FileToggle)>>)))) :
     id \in {T1, T0}, title \in TitleValues}

\* The toggles that are no toggle: null, a number, an object less one key.
BadToggles ==
  {JsonNull, JsonNumber} \cup {JsonObject(Only(FileToggle, ToggleKeys \ {k})) : k \in ToggleKeys}

\* The files that are no note.
InvalidFiles ==
  {Unparsable}
    \cup {Parsable(v) : v \in {JsonNull, JsonNumber, JsonString, JsonArray(<<>>)}}
    \cup {Parsable(JsonObject(Only(FileNote(T0, "a", JsonArray(<<>>)), NoteKeys \ {k}))) :
            k \in NoteKeys}
    \cup {Parsable(JsonObject(FileNote(T0, "a", v))) : v \in {JsonString, JsonObject(FileToggle)}}
    \cup {Parsable(JsonObject(FileNote(T0, "a", JsonArray(<<JsonObject(FileToggle), toggle>>)))) :
            toggle \in BadToggles}

Files == ValidFiles \cup InvalidFiles

\* What a call made: it returned ret, or it threw and returned nothing.
Returned(ret) == [ret |-> ret, threw |-> FALSE]
Threw == [ret |-> FALSE, threw |-> TRUE]

\* `key in value`: a TypeError when the value is no object.
In(key, value) ==
  IF value.type \in {"object", "array"}
  THEN Returned(value.type = "object" /\ key \in DOMAIN value.fields)
  ELSE Threw

\* The loop of lines 126-132 from the i-th toggle on; && stops at the first
\* key that is missing.
RECURSIVE ValidateToggles(_, _)
ValidateToggles(items, i) ==
  IF i > Len(items)
  THEN Returned(TRUE)
  ELSE LET missing == {k \in ToggleKeys : In(k, items[i]) # Returned(TRUE)}
       IN IF missing = {}
          THEN ValidateToggles(items, i + 1)
          ELSE IF \E k \in missing : In(k, items[i]) = Threw THEN Threw ELSE Returned(FALSE)

\* _validateSingleNoteData(note), lines 114-135.
_validateSingleNoteData(note) ==
  IF note.type # "object"
  THEN Returned(FALSE)
  ELSE IF ~(NoteKeys \subseteq DOMAIN note.fields) \/ note.fields.toggles.type # "array"
       THEN Returned(FALSE)
       ELSE ValidateToggles(note.fields.toggles.items, 1)

\* The note of the model a parsed note object is: the fields the model
\* follows (`created` is written once and never read).
AsNote(fields) ==
  [id |-> fields.id,
   title |-> fields.title,
   toggles |-> [i \in DOMAIN fields.toggles.items |-> fields.toggles.items[i].fields],
   updated |-> fields.updated]

\* Line 91: the title of a note that is imported under a new id.
ImportedTitle(title) ==
  IF title # "" THEN title \o " (Imported)" ELSE "Untitled Note (Imported)"

\* Lines 85-96: the note to add; on a conflict of ids it gets Date.now() as
\* its id, and its toggles the ids that follow.
Conflict(importedNote, list) == importedNote.id \in {list[i].id : i \in DOMAIN list}

NoteToAdd(importedNote, list, t) ==
  IF Conflict(importedNote, list)
  THEN [importedNote EXCEPT
          !.id = t,
          !.title = ImportedTitle(@),
          !.toggles = [i \in DOMAIN @ |-> [@[i] EXCEPT !.id = t + (i - 1) + 1]]]
  ELSE importedNote

\* The try block of importSingleNote, lines 78-100, as a function of the
\* list: the list after it, whether saveNotes() ran, whether Date.now() was
\* read, and what it returned or that it threw.  JSON.parse throws on a text
\* that does not parse.
TryImport(file, list, t) ==
  LET failed(out) == [notes |-> list, saved |-> FALSE, read |-> FALSE, out |-> out]
  IN IF ~file.parses
     THEN failed(Threw)
     ELSE LET valid == _validateSingleNoteData(file.value)
              importedNote == AsNote(file.value.fields)
          IN IF valid.threw
             THEN failed(Threw)
             ELSE IF ~valid.ret
                  THEN failed(Returned(FALSE))
                  ELSE [notes |-> <<NoteToAdd(importedNote, list, t)>> \o list,
                        saved |-> TRUE,
                        read |-> Conflict(importedNote, list),
                        out |-> Returned(TRUE)]

\* Without the catch a throw leaves the method.
Uncaught(result) == result

\* The catch of lines 102-105: a throw becomes the return value false.
Caught(result) ==
  IF result.out.threw THEN [result EXCEPT !.out = Returned(FALSE)] ELSE result

\* importSingleNote(jsonString), lines 76-106.
ImportSingleNote(file, list, t) == Caught(TryImport(file, list, t))

\* What a call of the manager leaves alone: the editor, which is closed.
ManagerCall ==
  /\ ops < MaxOps
  /\ editorHidden
  /\ ops' = ops + 1
  /\ UNCHANGED <<currentNote, history, buttons, editorHidden, dom, autoSaveTimeout,
                 commitTimers, toggleDebounce, toggleTimers, isRestoring, frames,
                 scrollRestoreTimeout, restoreTimers, ev, undoMark, burst, tb>>
  /\ UNCHANGED <<viewVars, heapVars, steps>>

\* createNote(), lines 8-27.
createNote(t) ==
  /\ ManagerCall
  /\ notes' = <<CreateNote(t)>> \o notes
  /\ storage' = notes'
  /\ now' = t
  /\ call' = [method |-> "createNote", before |-> notes, out |-> Returned(CreateNote(t))]

\* deleteNote(noteId), lines 38-41.
deleteNote(noteId) ==
  /\ ManagerCall
  /\ notes' = SelectSeq(notes, LAMBDA note : note.id # noteId)
  /\ storage' = notes'
  /\ call' = [method |-> "deleteNote", before |-> notes, out |-> Returned(Null)]
  /\ UNCHANGED now

\* importSingleNote(jsonString) at Date.now() = t.
importSingleNote(file, t) ==
  /\ ManagerCall
  /\ LET r == ImportSingleNote(file, notes, t)
     IN /\ notes' = r.notes
        /\ storage' = IF r.saved THEN r.notes ELSE storage
        /\ now' = IF r.read THEN t ELSE now
        /\ call' = [method |-> "importSingleNote", before |-> notes, file |-> file,
                    stored |-> storage, out |-> r.out]

ManagerNext ==
  \/ \E t \in DateNow : createNote(t)
  \/ \E i \in DOMAIN notes : deleteNote(notes[i].id)
  \/ \E file \in Files, t \in DateNow : importSingleNote(file, t)

ManagerSpec == Init /\ [][ManagerNext]_vars


\* ================================================================== claims

\* C1. Undo/redo inverse law: handleUndo makes the state it popped the current
\* note and leaves the note it replaced on top of the redo stack; a handleRedo
\* that follows with nothing in between gets that note back from redo, and the
\* current note's content is again what it was before the undo.
UndoRedoInverse ==
  /\ (ev.op = "handleUndo" /\ ev.ret # Null) =>
       /\ undoMark # Null
       /\ Content(currentNote) = Content(ev.ret)
       /\ history.redoStack # <<>>
       /\ Top(history.redoStack) = undoMark
  /\ (ev.op = "handleRedo" /\ undoMark # Null) =>
       /\ ev.ret = undoMark
       /\ Content(currentNote) = Content(undoMark)

\* C1 witness: an undo that changed the content, then the redo.
UndoThenRedoDone ==
  /\ ev.op = "handleRedo"
  /\ undoMark # Null
  /\ ev.ret # Null
  /\ history.undoStack # <<>>
  /\ Content(Top(history.undoStack)) # Content(currentNote)

\* C2. Divergence clears redo: right after a handler or callback that called
\* history.push (commit timer, toggle flip, add toggle, toggle title or content
\* edit) the redo stack is empty and the redo button is disabled.
DivergenceClearsRedo ==
  ev.pushes > 0 => (history.redoStack = <<>> /\ buttons.redoDisabled)

\* C2 witness: a push made while a redo entry existed.
PushOverRedoEntry ==
  /\ ev.pushes > 0
  /\ ev.redoBefore > 0
  /\ history.undoStack # <<>>

\* C3. Empty-stack no-op: handleUndo on an empty undo stack, and handleRedo on
\* an empty redo stack, get null and change neither stack, nor the current
\* note, nor the stored notes, and render nothing.
EmptyStackNoOp ==
  [][/\ (ops' = ops + 1 /\ ev'.op = "handleUndo" /\ history.undoStack = <<>>) =>
          /\ ev'.ret = Null
          /\ ev'.renders = 0
          /\ UNCHANGED <<history, currentNote, notes, dom, buttons>>
     /\ (ops' = ops + 1 /\ ev'.op = "handleRedo" /\ history.redoStack = <<>>) =>
          /\ ev'.ret = Null
          /\ ev'.renders = 0
          /\ UNCHANGED <<history, currentNote, notes, dom, buttons>>]_vars

\* C3 witness: a redo on an empty redo stack with a note open whose time
\* stamp a store would have changed.
RedoOnEmptyStack ==
  /\ ev.op = "handleRedo"
  /\ ev.redoBefore = 0
  /\ ~ev.threw
  /\ currentNote # Null
  /\ currentNote.updated < now


\* C4. Burst-start pinning: when the commit timer fires at the end of a burst
\* of title edits and pushes, the snapshot it pushes is the note as it was
\* before the first edit of the burst.
BurstStartPinning ==
  (ev.op = "autoSave" /\ ev.pushes > 0 /\ burst.op = "handleNoteChange" /\ burst.closed) =>
    Top(history.undoStack) = burst.start

\* C5. Edit coalescing: a burst of edits of one field (the note title, one
\* toggle's title, one toggle's content) makes at most one history entry.
EditCoalescing == burst.pushes <= 1

ToggleDebounceCoalescing ==
  (tb # Null /\ tb.ids \subseteq {tb.last}) =>
    IF tb.done
    THEN tb.flips = 1 /\ tb.pushes = 1 /\ tb.renders = 1
    ELSE tb.flips = 0 /\ tb.pushes = 0 /\ tb.renders = 0

\* C7 witness: two or more requests for the same toggle were coalesced and the
\* timer has fired.
SameToggleBurstDone ==
  /\ tb # Null
  /\ tb.done
  /\ tb.calls >= 2
  /\ tb.ids = {tb.last}
  /\ tb.flips = 1

\* C8. Last-call-wins: when requests for different toggles arrive within one
\* debounce window, once the timer has fired exactly one toggle has an isOpen
\* other than it had before the first request, and it carries the id of the
\* final request; the toggles named by the earlier requests are as they were.
LastCallWins ==
  (tb # Null /\ tb.done /\ ~(tb.ids \subseteq {tb.last})) =>
    LET changed == {i \in DOMAIN tb.base.toggles :
                      currentNote.toggles[i].isOpen # tb.base.toggles[i].isOpen}
    IN /\ Len(currentNote.toggles) = Len(tb.base.toggles)
       /\ Cardinality(changed) = 1
       /\ \A i \in changed : tb.base.toggles[i].id = tb.last

\* C8 witness: requests for two different toggles were made within one window,
\* the timer has fired and the toggle of the earlier request kept its state.
MixedBurstDone ==
  /\ tb # Null
  /\ tb.done
  /\ \E id \in tb.ids : id # tb.last
  /\ tb.flips = 1
  /\ \E i \in DOMAIN tb.base.toggles :
       /\ tb.base.toggles[i].id \in tb.ids \ {tb.last}
       /\ currentNote.toggles[i].isOpen = tb.base.toggles[i].isOpen

\* C9. Reentrancy drop: when the debounce timer of a request issued while a
\* reconciliation was in flight fires, the history, the note, the stored notes
\* and the rendered DOM stay as they are and no frame callback or pass-2 timer
\* is scheduled.
ReentrancyDrop ==
  [][(/\ toggleTimers # <<>>
      /\ toggleTimers' = Tail(toggleTimers)
      /\ ev'.op = "_handleToggleSection"
      /\ Head(toggleTimers).during) =>
       /\ ev'.ret.dropped
       /\ UNCHANGED <<history, buttons, currentNote, notes, dom, frames, restoreTimers,
                      isRestoring>>]_vars

\* C9 witness: a second request overlapped the reconciliation of a first one
\* and was dropped, so that one mutation was made for the two.
OverlappingRequestDropped ==
  /\ ev.op = "_handleToggleSection"
  /\ ev.ret.during
  /\ ev.ret.dropped
  /\ currentNote # Null
  /\ isRestoring
  /\ Len(history.undoStack) = 1


\* C10. Guard release: whenever the reentrancy guard is held (isRestoring is
\* true), it is eventually released, whatever the user does meanwhile, as
\* long as the frame and timer callbacks that are pending get to run.
GuardRelease == isRestoring ~> ~isRestoring


\* C11. Hard reset on failure: when a reconciliation throws (here: the toggle
\* to flip is not found), the exception is caught, every textarea and the
\* container are scrolled to 0 and the reentrancy guard is released.
HardResetOnFailure ==
  (ev.op = "_handleToggleSection" /\ ev.threw) =>
    /\ ~isRestoring
    /\ editorScroll = 0
    /\ \A k \in DOMAIN regions : regions[k].scrollTop = 0


\* The textareas to which the pass just run gave another scrollTop.
Rewritten == {k \in DOMAIN regions : regions[k].scrollTop # vev.before[k].scrollTop}

\* The states the pass just run had captured under the id of the textarea at k.
CapturedFor(k) ==
  {vev.rec.scrollPositions[i] : i \in {j \in DOMAIN vev.rec.scrollPositions :
                                         vev.rec.scrollPositions[j].id = regions[k].id}}

\* C12 as stated. Hash-guarded skip in both passes: pass 1 and pass 2 give a
\* textarea another scrollTop only if it is there and holds the content it
\* held at capture; a textarea whose content changed since is not written.
ContentGuardedWrites ==
  vev.op \in {"pass1", "pass2"} =>
    \A k \in Rewritten : \E state \in CapturedFor(k) : regions[k].content = state.content

\* C12 amended. Pass 1 and pass 2 give a textarea another scrollTop only if
\* it is there and its content hashes, at that pass, to the hash taken at
\* capture; a textarea whose hash has changed is left as the render set it.
HashGuardedWrites ==
  vev.op \in {"pass1", "pass2"} =>
    \A k \in Rewritten :
      \E state \in CapturedFor(k) : _hashContent(regions[k].content) = state.contentHash

\* C12 witness: a pass has run over a textarea that was scrolled down at
\* capture and whose content has another hash since, and has left it at the
\* top, where the render put it.
StaleRegionSkipped ==
  /\ vev.op \in {"pass1", "pass2"}
  /\ \E k \in DOMAIN regions :
       /\ regions[k].scrollTop = 0
       /\ \E state \in CapturedFor(k) :
            /\ state.scrollTop # 0
            /\ state.id # vev.rec.toggleId
            /\ _hashContent(regions[k].content) # state.contentHash


\* C13. Scroll ratio rescale: once pass 2 has run, a restored textarea whose
\* content hash is the captured one and whose scrollHeight differs from the
\* captured one holds capturedScrollTop * newScrollHeight / oldScrollHeight
\* (100 captured at 200 gives 200 at 400), not the captured value as it is.
ScrollRatioRescale ==
  vev.op = "pass2" =>
    \A k \in DOMAIN regions : \A state \in CapturedFor(k) :
      ( /\ _hashContent(regions[k].content) = state.contentHash
        /\ state.scrollHeight # regions[k].scrollHeight
        /\ state.id # vev.rec.toggleId ) =>
        regions[k].scrollTop = MathRound(state.scrollTop * regions[k].scrollHeight,
                                         state.scrollHeight)


\* C14. Verified reuse on every restoration path: the restoration that runs
\* after undo, redo and add-toggle gives a textarea another scrollTop only if
\* its content hashes to what the textarea of that id held when the state was
\* saved; a textarea whose content differs is left untouched.
VerifiedReuse ==
  vev.op = "restore" =>
    \A k \in {j \in DOMAIN regions : regions[j].scrollTop # vev.before[j].scrollTop} :
      \E j \in DOMAIN savedFrom :
        /\ savedFrom[j].id = regions[k].id
        /\ _hashContent(savedFrom[j].content) = _hashContent(regions[k].content)


\* C15. No loss of note content: under fair timer scheduling every title edit
\* made while a note is open is eventually persisted, for every interleaving
\* with closeEditor and openEditor: the stored note's title becomes the edited
\* title, or a later title edit, an undo or a redo supersedes the edit.
NoLossOfTitleEdit ==
  \A value \in TitleValues :
    (ev.op = "handleNoteChange" /\ currentNote # Null /\ currentNote.title = value)
      ~> \/ notes[1].title = value
         \/ ev.op = "handleNoteChange" /\ currentNote # Null /\ currentNote.title # value
         \/ ev.op \in {"handleUndo", "handleRedo"} /\ ev.ret # Null


\* C16. Note id immutability: from openEditor(n) on, until the editor is closed
\* or another note is opened, no handler and no timer callback gives the
\* current note another id, timers armed in an earlier session included.
NoteIdImmutable ==
  [][(currentNote # Null /\ currentNote' # Null /\ ev'.op # "openEditor")
       => currentNote'.id = currentNote.id]_vars

\* C17. Snapshot independence: a snapshot on the undo or the redo stack keeps
\* its content for as long as it stays there, whatever is assigned to the
\* live note meanwhile (a field edit, a toggle flip, a new toggle, the
\* timestamp of updateNote).
SnapshotIndependence ==
  [][\A ref \in Stacked : ref \in Stacked' => heap'[ref] = heap[ref]]_vars

\* C17 witness: the title of the live note has just been edited while the redo
\* stack holds the object that was the live note before the last undo, and
\* that object has kept its title.
EditedOverStackedSnapshot ==
  /\ ev.op = "handleNoteChange"
  /\ currentRef # 0
  /\ stackRefs.redoStack # <<>>
  /\ \A ref \in Stacked : heap[ref].title # heap[currentRef].title


\* The buttons say what the stacks are: undo disabled iff nothing to undo, redo
\* disabled iff nothing to redo.
ButtonsFollowStacks ==
  /\ buttons.undoDisabled <=> (history.undoStack = <<>>)
  /\ buttons.redoDisabled <=> (history.redoStack = <<>>)

\* C18. Undo/redo availability flags: a step that calls clear (openEditor,
\* closeEditor) or changes a stack (push, undo, redo) leaves the undo button
\* disabled iff the undo stack is empty and the redo button disabled iff the
\* redo stack is empty, and every later step keeps it so.
AvailabilityFlags ==
  [][(\/ ButtonsFollowStacks
      \/ history' # history
      \/ ev'.op \in {"openEditor", "closeEditor"}) => ButtonsFollowStacks']_vars

\* C18 witness: an undo has just left entries on both stacks and both buttons
\* are enabled.
BothButtonsEnabled ==
  /\ ev.op = "handleUndo"
  /\ ev.ret # Null
  /\ history.undoStack # <<>>
  /\ history.redoStack # <<>>
  /\ ~buttons.undoDisabled
  /\ ~buttons.redoDisabled

\* C19. Toggle id uniqueness: the toggle ids within the current note and
\* within every stored note are pairwise distinct, whenever createNote and
\* addNewToggle read the clock.
ToggleIdsDistinct ==
  \A note \in {notes[i] : i \in DOMAIN notes} \cup ({currentNote} \ {Null}) :
    \A i, j \in DOMAIN note.toggles :
      i # j => note.toggles[i].id # note.toggles[j].id


\* C20. Retention pruning: cleanupOldEditorStates removes exactly the stored
\* view states whose timestamp is older than now minus the retention window
\* and keeps every other entry as it is, the entry whose timestamp equals now
\* minus the window included.
RetentionPruning ==
  vev.op = "cleanup" =>
    editorStates = {state \in vev.before : ~(state.timestamp < now - RETENTION_WINDOW)}


\* C21. Import failure leaves state unchanged: importSingleNote given a text
\* that does not parse, a value that is no object, a note missing a required
\* key, or a toggle that is null or is missing a required key returns false
\* without throwing, and the notes list and the persisted notes are as they
\* were before the call.
ImportFailureLeavesStateUnchanged ==
  (call.method = "importSingleNote" /\ call.file \in InvalidFiles) =>
    /\ call.out = Returned(FALSE)
    /\ notes = call.before
    /\ storage = call.stored

\* C21 witness: with two notes in the list, a file whose second toggle is
\* null has just been refused.
NullToggleRefused ==
  /\ call.method = "importSingleNote"
  /\ call.file =
       Parsable(JsonObject(FileNote(T0, "a", JsonArray(<<JsonObject(FileToggle), JsonNull>>))))
  /\ call.out = Returned(FALSE)
  /\ Len(notes) = 2
  /\ storage = notes

\* C22. Import never overwrites and yields a unique id: after any sequence of
\* createNote, importSingleNote and deleteNote the note ids in the list are
\* pairwise distinct; a successful import leaves every note that was there as
\* it was; a note imported under an id the list already has is added under an
\* id that no note of the list had.
ImportYieldsUniqueId ==
  /\ \A i, j \in DOMAIN notes : i # j => notes[i].id # notes[j].id
  /\ (call.method = "importSingleNote" /\ call.out = Returned(TRUE)) =>
       /\ Tail(notes) = call.before
       /\ Conflict(AsNote(call.file.value.fields), call.before) =>
            ~Conflict(notes[1], call.before)


\* C23. No cross-timer cancellation: a toggle request cancels only a pending
\* toggle debounce timer and leaves a pending commit timer and a pending
\* pass-2 timer armed; a title edit cancels only a pending commit timer.
NoCrossTimerCancellation ==
  [][/\ (ops' = ops + 1 /\ ev'.op = "toggleSection") =>
          /\ commitTimers' = commitTimers
          /\ restoreTimers' = restoreTimers
     /\ (ops' = ops + 1 /\ ev'.op = "handleNoteChange") =>
          /\ toggleTimers' = toggleTimers
          /\ restoreTimers' = restoreTimers]_vars


\* Every b among the steps of the reconciliation has an a before it.
Before(a, b) ==
  \A j \in DOMAIN steps : steps[j] = b => \E i \in 1..(j - 1) : steps[i] = a

MutualExclusion ==
  [][/\ Len(frames') + Len(restoreTimers') <= 1
     /\ (Len(toggleTimers') < Len(toggleTimers) /\ ~ev'.ret.dropped) =>
          /\ reconciliation = Null
          /\ frames = <<>>
          /\ restoreTimers = <<>>]_vars

\* C25 witness: a debounce timer has fired between pass 1 and pass 2 of a
\* reconciliation, and its call was dropped.
SecondStartDropped ==
  /\ ev.op = "_handleToggleSection"
  /\ ev.ret.dropped
  /\ reconciliation # Null
  /\ restoreTimers # <<>>


\* C26. Single owned timer per kind: in every reachable state at most one
\* commit timer, at most one toggle debounce timer and at most one pass-2
\* restoration timer is pending.
SingleTimerPerKind ==
  /\ Len(commitTimers) <= 1
  /\ Len(toggleTimers) <= 1
  /\ Len(restoreTimers) <= 1

\* C26 witness: a second title edit has re-armed the commit timer while a
\* toggle debounce timer is pending, and one timer of each kind is left.
CommitTimerRearmed ==
  /\ burst.op = "handleNoteChange"
  /\ burst.edits = 2
  /\ Len(commitTimers) = 1
  /\ Len(toggleTimers) = 1


\* C27. History belongs to the open session: every snapshot on the undo stack
\* and on the redo stack has the id of the note that is open, and while no
\* note is open both stacks are empty.
HistoryOfOpenNote ==
  \A snapshot \in {history.undoStack[i] : i \in DOMAIN history.undoStack}
                    \cup {history.redoStack[i] : i \in DOMAIN history.redoStack} :
    currentNote # Null /\ snapshot.id = currentNote.id


\* C28. Chronological undo order: the undo stack holds the snapshots in the
\* order in which they were taken, each from the note as it was when its
\* mutation took effect, so that successive undos walk the note back in time.
\* A snapshot object's reference counts the objects made before it: the
\* references on the undo stack grow from the bottom to the top.
ChronologicalUndoOrder ==
  \A i, j \in DOMAIN stackRefs.undoStack :
    i < j => stackRefs.undoStack[i] < stackRefs.undoStack[j]


\* C29. Redo survives until a new user action: after a successful handleUndo
\* the redo stack stays non-empty until the user's next input; a timer or
\* frame callback that runs in between, the commit timer of an edit made
\* before the undo included, leaves the redo stack as it is.
RedoSurvivesCallbacks ==
  [][(ev.op = "handleUndo" /\ ev.ret # Null /\ ops' = ops) =>
       /\ history.redoStack # <<>>
       /\ history'.redoStack = history.redoStack]_vars

====
